---- MODULE Spec2Model ----
(***************************************************************************)
(* conf.py of the blog: the Tinkerer/Sphinx configuration module.          *)
(*                                                                         *)
(* The model has two parts.  The first is the execution of conf.py itself, *)
(* one module-level statement per step, by Python's rules: the right-hand  *)
(* side is evaluated in the namespace built so far (and in the imported    *)
(* tinkerer package) and the result is bound to the target name.  The      *)
(* second is the build that consumes the namespace: Sphinx copies the      *)
(* settings into its Config, loads the extensions, and Tinkerer renders    *)
(* the posts, the listing pages, the site root and the feed.  The build is *)
(* not part of this repository; it is written from its description in the *)
(* specification (sections 4.1, 5, 6 and 8) and from the comments of       *)
(* conf.py.                                                                *)
(*                                                                         *)
(* A Python str is a sequence of one-character strings, so that the length *)
(* of slug_word_separator, the slug of a title and the match of a sidebar  *)
(* pattern are computed character by character.  A character outside ASCII *)
(* is written as its code point ("U+0219"), and so is the grave accent     *)
(* ("U+0060"), which a TLA+ string cannot hold.                            *)
(***************************************************************************)
EXTENDS Integers, Sequences, FiniteSets, TLC

VARIABLES
    pc,         \* index in Program of the next statement of conf.py to execute
    ns,         \* the module namespace of conf.py: name -> value, Unbound before the binding
    deps,       \* name -> the names and module attributes its right-hand side read
    imported,   \* the modules imported so far (sys.modules, as far as conf.py goes)
    failed,     \* TRUE once a statement raised (NameError, AttributeError): the load is aborted
    tk,         \* the installed tinkerer package: attribute path -> value
    nposts,     \* the number of posts of the site being built
    stage,      \* where the build is: "load", then the consumer's stages
    cfg,        \* the consumer's Config: recognized key -> value copied from ns
    nread,      \* how many recognized keys the consumer has copied into cfg
    loadedExts, \* the extensions the consumer has set up, in the order it did
    out,        \* the artifacts rendered so far, in rendering order
    siteRoot,   \* what the site root shows, once resolved
    rootTitle,  \* the label of the first page, once resolved
    feedLink    \* where the feed links of the pages point, once rendered

vars == <<pc, ns, deps, imported, failed, tk, nposts, stage, cfg, nread,
          loadedExts, out, siteRoot, rootTitle, feedLink>>

loadVars == <<pc, ns, deps, imported, failed>>
buildVars == <<cfg, nread, loadedExts, out, siteRoot, rootTitle, feedLink>>

----------------------------------------------------------------------------
(* Python values *)

PyNone == [t |-> "none", v |-> <<>>]
PyStr(chars) == [t |-> "str", v |-> chars]
PyInt(n) == [t |-> "int", v |-> n]
PyBool(b) == [t |-> "bool", v |-> b]
PyList(items) == [t |-> "list", v |-> items]
\* a dict display keeps its entries in insertion order: a sequence of <<key, value>>
PyDict(entries) == [t |-> "dict", v |-> entries]
PyModule(name) == [t |-> "module", v |-> name]
\* a name that no statement has bound yet
Unbound == [t |-> "unbound", v |-> <<>>]

----------------------------------------------------------------------------
(* The expressions conf.py uses on the right of "=" *)

Lit(value) == [kind |-> "lit", val |-> value, ref |-> "", mod |-> "", parts |-> <<>>]
\* a bare name, looked up in the module namespace
Name(n) == [kind |-> "name", val |-> PyNone, ref |-> n, mod |-> "", parts |-> <<>>]
\* an attribute of an imported module: m is the module, path the dotted expression
Attr(m, path) == [kind |-> "attr", val |-> PyNone, ref |-> path, mod |-> m, parts |-> <<>>]
ListE(items) == [kind |-> "list", val |-> PyNone, ref |-> "", mod |-> "", parts |-> items]
\* entries is a sequence of <<key expression, value expression>>
DictE(entries) == [kind |-> "dict", val |-> PyNone, ref |-> "", mod |-> "", parts |-> entries]

\* The statements: an import, or an assignment of one expression to one name.
Import(ln, m) == [line |-> ln, op |-> "import", target |-> "tinkerer", mod |-> m, expr |-> Lit(PyNone)]
Assign(ln, name, e) == [line |-> ln, op |-> "assign", target |-> name, mod |-> "", expr |-> e]

----------------------------------------------------------------------------
(* conf.py, statement by statement.  Each definition is named after the    *)
(* name the statement binds.                                               *)

\* line 5: import tinkerer
import_tinkerer == Import(5, "tinkerer")

\* line 6: import tinkerer.paths
import_tinkerer_paths == Import(6, "tinkerer.paths")

\* line 13: project = 'Blog'
project ==
    Assign(13, "project",
        Lit(PyStr(<<"B", "l", "o", "g">>)))

\* line 16: tagline = ''
tagline ==
    Assign(16, "tagline",
        Lit(PyStr(<<>>)))

\* line 19: description = "Vlad's Tech Blog"
description ==
    Assign(19, "description",
        Lit(PyStr(<<"V", "l", "a", "d", "'", "s", " ", "T", "e", "c", "h", " ", "B", "l", "o", "g">>)))

\* line 22: author = 'Vlad Riscutia', the s and the t with a comma below (U+0219, U+021B)
author ==
    Assign(22, "author",
        Lit(PyStr(<<"V", "l", "a", "d", " ", "R", "i", "U+0219", "c", "u", "U+021B", "i", "a">>)))

\* a conf.py whose copyright is typed again, without the diacritics, instead of
\* being taken from author
copyright_retyped ==
    Assign(25, "copyright",
        Lit(PyStr(<<"V", "l", "a", "d", " ", "R", "i", "s", "c", "u", "t", "i", "a">>)))

\* line 25: copyright = author
copyright ==
    Assign(25, "copyright",
        Name("author"))

\* line 28: website = 'http://vladris.com/blog/'
website ==
    Assign(28, "website",
        Lit(PyStr(<<"h", "t", "t", "p", ":", "/", "/", "v", "l", "a", "d", "r", "i", "s", ".", "c", "o", "m", "/", "b", "l", "o", "g", "/">>)))

\* line 35: html_favicon = '_static/tinkerer.ico'
html_favicon ==
    Assign(35, "html_favicon",
        Lit(PyStr(<<"_", "s", "t", "a", "t", "i", "c", "/", "t", "i", "n", "k", "e", "r", "e", "r", ".", "i", "c", "o">>)))

\* line 38: html_theme = 'flat'
html_theme ==
    Assign(38, "html_theme",
        Lit(PyStr(<<"f", "l", "a", "t">>)))

\* line 41: html_theme_options = {'accent_color': '#dd0000'}
html_theme_options ==
    Assign(41, "html_theme_options",
        DictE(<< <<Lit(PyStr(<<"a", "c", "c", "e", "n", "t", "_", "c", "o", "l", "o", "r">>)),
                   Lit(PyStr(<<"#", "d", "d", "0", "0", "0", "0">>))>> >>))

\* a conf.py that names a feed relay
rss_service_feedburner ==
    Assign(47, "rss_service",
        Lit(PyStr(<<"f", "e", "e", "d", "b", "u", "r", "n", "e", "r">>)))

\* line 47: rss_service = None
rss_service ==
    Assign(47, "rss_service",
        Lit(PyNone))

\* line 50: rss_generate_full_posts = False
rss_generate_full_posts ==
    Assign(50, "rss_generate_full_posts",
        Lit(PyBool(FALSE)))

\* a conf.py with no post on a page
posts_per_page_zero ==
    Assign(53, "posts_per_page",
        Lit(PyInt(0)))

\* line 53: posts_per_page = 10
posts_per_page ==
    Assign(53, "posts_per_page",
        Lit(PyInt(10)))

\* a conf.py with the underscore as the separator
slug_word_separator_underscore ==
    Assign(56, "slug_word_separator",
        Lit(PyStr(<<"_">>)))

\* line 56: slug_word_separator = '-'
slug_word_separator ==
    Assign(56, "slug_word_separator",
        Lit(PyStr(<<"-">>)))

\* line 59: landing_page = None
landing_page ==
    Assign(59, "landing_page",
        Lit(PyNone))

\* line 62: first_page_title = None
first_page_title ==
    Assign(62, "first_page_title",
        Lit(PyNone))

\* a conf.py that lists the two extensions the other way round
extensions_swapped ==
    Assign(69, "extensions",
        ListE(<<Lit(PyStr(<<"s", "p", "h", "i", "n", "x", ".", "e", "x", "t", ".", "m", "a", "t", "h", "j", "a", "x">>)),
                Lit(PyStr(<<"t", "i", "n", "k", "e", "r", "e", "r", ".", "e", "x", "t", ".", "b", "l", "o", "g">>))>>))

\* line 69: extensions = ['tinkerer.ext.blog', 'sphinx.ext.mathjax']
extensions ==
    Assign(69, "extensions",
        ListE(<<Lit(PyStr(<<"t", "i", "n", "k", "e", "r", "e", "r", ".", "e", "x", "t", ".", "b", "l", "o", "g">>)),
                Lit(PyStr(<<"s", "p", "h", "i", "n", "x", ".", "e", "x", "t", ".", "m", "a", "t", "h", "j", "a", "x">>))>>))

\* line 72: templates_path = ['_templates']
templates_path ==
    Assign(72, "templates_path",
        ListE(<<Lit(PyStr(<<"_", "t", "e", "m", "p", "l", "a", "t", "e", "s">>))>>))

\* line 75: html_static_path = ['_static', tinkerer.paths.static]
html_static_path ==
    Assign(75, "html_static_path",
        ListE(<<Lit(PyStr(<<"_", "s", "t", "a", "t", "i", "c">>)),
                Attr("tinkerer.paths", "tinkerer.paths.static")>>))

\* a conf.py whose theme path is the local directory only
html_theme_path_local ==
    Assign(78, "html_theme_path",
        ListE(<<Lit(PyStr(<<"_", "t", "h", "e", "m", "e", "s">>))>>))

\* line 78: html_theme_path = ['_themes', tinkerer.paths.themes]
html_theme_path ==
    Assign(78, "html_theme_path",
        ListE(<<Lit(PyStr(<<"_", "t", "h", "e", "m", "e", "s">>)),
                Attr("tinkerer.paths", "tinkerer.paths.themes")>>))

\* line 81: exclude_patterns = ['drafts/*', '_templates/*']
exclude_patterns ==
    Assign(81, "exclude_patterns",
        ListE(<<Lit(PyStr(<<"d", "r", "a", "f", "t", "s", "/", "*">>)),
                Lit(PyStr(<<"_", "t", "e", "m", "p", "l", "a", "t", "e", "s", "/", "*">>))>>))

\* a conf.py whose sidebar pattern is a single star, which stops at "/"
html_sidebars_single_star ==
    Assign(84, "html_sidebars",
        DictE(<< <<Lit(PyStr(<<"*">>)), ListE(<<>>)>> >>))

\* line 84: html_sidebars = {'**': []}
html_sidebars ==
    Assign(84, "html_sidebars",
        DictE(<< <<Lit(PyStr(<<"*", "*">>)), ListE(<<>>)>> >>))

\* line 89: html_use_index = False
html_use_index ==
    Assign(89, "html_use_index",
        Lit(PyBool(FALSE)))

\* line 96: source_suffix = tinkerer.source_suffix
source_suffix ==
    Assign(96, "source_suffix",
        Attr("tinkerer", "tinkerer.source_suffix"))

\* line 97: master_doc = tinkerer.master_doc
master_doc ==
    Assign(97, "master_doc",
        Attr("tinkerer", "tinkerer.master_doc"))

\* line 98: version = tinkerer.__version__
version ==
    Assign(98, "version",
        Attr("tinkerer", "tinkerer.__version__"))

\* line 99: release = tinkerer.__version__
release ==
    Assign(99, "release",
        Attr("tinkerer", "tinkerer.__version__"))

\* line 100: html_title = project
html_title ==
    Assign(100, "html_title",
        Name("project"))

\* a conf.py whose last block turns the index of line 89 back on
html_show_sourcelink_sets_index ==
    Assign(101, "html_use_index",
        Lit(PyBool(TRUE)))

\* line 101: html_show_sourcelink = False
html_show_sourcelink ==
    Assign(101, "html_show_sourcelink",
        Lit(PyBool(FALSE)))

\* line 102: html_add_permalinks = ''
html_add_permalinks ==
    Assign(102, "html_add_permalinks",
        Lit(PyStr(<<>>)))

\* The module body, in source order.
Program ==
    << import_tinkerer, import_tinkerer_paths,
       project, tagline, description, author, copyright, website,
       html_favicon, html_theme, html_theme_options,
       rss_service, rss_generate_full_posts, posts_per_page,
       slug_word_separator, landing_page, first_page_title,
       extensions, templates_path, html_static_path, html_theme_path,
       exclude_patterns, html_sidebars, html_use_index,
       source_suffix, master_doc, version, release, html_title,
       html_show_sourcelink, html_add_permalinks >>

NumStmts == Len(Program)

\* every name some statement of conf.py binds
Names == {Program[i].target : i \in 1..NumStmts}

----------------------------------------------------------------------------
(* The tinkerer package conf.py imports.  Its attribute values belong to   *)
(* the installation, not to this repository: they are inputs.              *)

TinkererAttrs ==
    {"tinkerer.paths.static", "tinkerer.paths.themes", "tinkerer.source_suffix",
     "tinkerer.master_doc", "tinkerer.__version__"}

TinkererInstalls ==
    { [a \in TinkererAttrs |->
        CASE a = "tinkerer.paths.static" ->
               PyStr(<<"/", "u", "s", "r", "/", "l", "i", "b", "/", "t", "i", "n", "k", "e", "r", "e", "r", "/", "s", "t", "a", "t", "i", "c">>)
          [] a = "tinkerer.paths.themes" ->
               PyStr(<<"/", "u", "s", "r", "/", "l", "i", "b", "/", "t", "i", "n", "k", "e", "r", "e", "r", "/", "t", "h", "e", "m", "e", "s">>)
          [] a = "tinkerer.source_suffix" -> PyStr(<<".", "r", "s", "t">>)
          [] a = "tinkerer.master_doc" -> PyStr(<<"m", "a", "s", "t", "e", "r">>)
          [] a = "tinkerer.__version__" -> PyStr(<<"1", ".", "7", ".", "2">>)],
      [a \in TinkererAttrs |->
        CASE a = "tinkerer.paths.static" ->
               PyStr(<<"/", "o", "p", "t", "/", "t", "i", "n", "k", "e", "r", "e", "r", "/", "s", "t", "a", "t", "i", "c">>)
          [] a = "tinkerer.paths.themes" ->
               PyStr(<<"/", "o", "p", "t", "/", "t", "i", "n", "k", "e", "r", "e", "r", "/", "t", "h", "e", "m", "e", "s">>)
          [] a = "tinkerer.source_suffix" -> PyStr(<<".", "r", "s", "t">>)
          [] a = "tinkerer.master_doc" -> PyStr(<<"i", "n", "d", "e", "x">>)
          [] a = "tinkerer.__version__" -> PyStr(<<"1", ".", "7">>)] }

\* "import a.b" imports the package a and then its submodule a.b
ModuleClosure(m) ==
    IF m = "tinkerer.paths" THEN {"tinkerer", "tinkerer.paths"} ELSE {m}

----------------------------------------------------------------------------
(* Evaluation of a right-hand side, by Python's rules *)

RECURSIVE Raises(_, _, _)
\* TRUE when evaluating e raises: a name that is not bound (NameError), or an
\* attribute of a module that was not imported (NameError, AttributeError)
Raises(e, n, imp) ==
    CASE e.kind = "lit" -> FALSE
      [] e.kind = "name" -> n[e.ref] = Unbound
      [] e.kind = "attr" -> n["tinkerer"] = Unbound \/ e.mod \notin imp
      [] e.kind = "list" -> \E i \in 1..Len(e.parts) : Raises(e.parts[i], n, imp)
      [] e.kind = "dict" -> \E i \in 1..Len(e.parts) :
                               Raises(e.parts[i][1], n, imp) \/ Raises(e.parts[i][2], n, imp)

RECURSIVE Eval(_, _, _)
\* the value of e in the namespace n with the tinkerer package t
Eval(e, n, t) ==
    CASE e.kind = "lit" -> e.val
      [] e.kind = "name" -> n[e.ref]
      [] e.kind = "attr" -> t[e.ref]
      [] e.kind = "list" -> PyList([i \in 1..Len(e.parts) |-> Eval(e.parts[i], n, t)])
      [] e.kind = "dict" -> PyDict([i \in 1..Len(e.parts) |->
                                      <<Eval(e.parts[i][1], n, t), Eval(e.parts[i][2], n, t)>>])

RECURSIVE Reads(_)
\* the names and module attributes the evaluation of e reads
Reads(e) ==
    CASE e.kind = "lit" -> {}
      [] e.kind = "name" -> {e.ref}
      [] e.kind = "attr" -> {e.ref}
      [] e.kind = "list" -> UNION {Reads(e.parts[i]) : i \in 1..Len(e.parts)}
      [] e.kind = "dict" -> UNION {Reads(e.parts[i][1]) \cup Reads(e.parts[i][2]) : i \in 1..Len(e.parts)}

----------------------------------------------------------------------------
(* Loading conf.py *)

MaxPosts == 12

\* the keys the consumer recognizes, in the order of the table of section 4.1
KeyOrder ==
    << "project", "tagline", "description", "author", "copyright", "website",
       "html_favicon", "html_theme", "html_theme_options", "rss_service",
       "rss_generate_full_posts", "posts_per_page", "slug_word_separator",
       "landing_page", "first_page_title", "extensions", "templates_path",
       "html_static_path", "html_theme_path", "exclude_patterns",
       "html_sidebars", "html_use_index" >>

RecognizedKeys == {KeyOrder[i] : i \in 1..Len(KeyOrder)}

Unresolved == [kind |-> "unresolved", target |-> <<>>]

Init ==
    /\ pc = 1
    /\ ns = [n \in Names |-> Unbound]
    /\ deps = [n \in Names |-> {}]
    /\ imported = {}
    /\ failed = FALSE
    /\ tk \in TinkererInstalls
    /\ nposts \in 0..MaxPosts
    /\ stage = "load"
    /\ cfg = [k \in RecognizedKeys |-> Unbound]
    /\ nread = 0
    /\ loadedExts = <<>>
    /\ out = <<>>
    /\ siteRoot = Unresolved
    /\ rootTitle = Unbound
    /\ feedLink = Unresolved

\* conf.py has run to its end without raising
Loaded == pc > NumStmts /\ ~failed

\* One module-level statement of conf.py.  An import binds the top-level
\* package name and records the modules imported; an assignment evaluates
\* its right-hand side and binds the target; a statement that raises aborts
\* the load and binds nothing.
ExecStmt ==
    /\ stage = "load"
    /\ pc <= NumStmts
    /\ ~failed
    /\ LET s == Program[pc] IN
         IF s.op = "import"
         THEN /\ imported' = imported \cup ModuleClosure(s.mod)
              /\ ns' = [ns EXCEPT ![s.target] = PyModule("tinkerer")]
              /\ deps' = [deps EXCEPT ![s.target] = {s.mod}]
              /\ pc' = pc + 1
              /\ UNCHANGED failed
         ELSE IF Raises(s.expr, ns, imported)
         THEN /\ failed' = TRUE
              /\ UNCHANGED <<pc, ns, deps, imported>>
         ELSE /\ ns' = [ns EXCEPT ![s.target] = Eval(s.expr, ns, tk)]
              /\ deps' = [deps EXCEPT ![s.target] = Reads(s.expr)]
              /\ pc' = pc + 1
              /\ UNCHANGED <<imported, failed>>
    /\ UNCHANGED <<tk, nposts, stage>>
    /\ UNCHANGED buildVars

----------------------------------------------------------------------------
(* The build that consumes the namespace: helpers.                         *)
(* Written from the specification: sections 4.1, 6, 8 and the glossary.    *)

UpperCase ==
    << "A", "B", "C", "D", "E", "F", "G", "H", "I", "J", "K", "L", "M",
       "N", "O", "P", "Q", "R", "S", "T", "U", "V", "W", "X", "Y", "Z" >>

LowerCase ==
    << "a", "b", "c", "d", "e", "f", "g", "h", "i", "j", "k", "l", "m",
       "n", "o", "p", "q", "r", "s", "t", "u", "v", "w", "x", "y", "z" >>

DigitChars == << "0", "1", "2", "3", "4", "5", "6", "7", "8", "9" >>

\* the printable characters of ASCII, space to tilde
Printable ==
    { " ", "!", "\"", "#", "$", "%", "&", "'", "(", ")", "*", "+", ",", "-", ".", "/",
      ":", ";", "<", "=", ">", "?", "@", "[", "\\", "]", "^", "_", "U+0060", "{", "|", "}", "~" }
    \cup {UpperCase[i] : i \in 1..26} \cup {LowerCase[i] : i \in 1..26}
    \cup {DigitChars[i] : i \in 1..10}

IsAlnum(c) ==
    \/ \E i \in 1..26 : c = UpperCase[i] \/ c = LowerCase[i]
    \/ \E i \in 1..10 : c = DigitChars[i]

Lower(c) ==
    IF \E i \in 1..26 : c = UpperCase[i]
    THEN LowerCase[CHOOSE i \in 1..26 : c = UpperCase[i]]
    ELSE c

RECURSIVE SlugFrom(_, _, _, _)
\* acc is the slug of the characters already consumed; pending tells that a
\* run of non-alphanumeric characters was passed since the last character kept
SlugFrom(chars, sep, acc, pending) ==
    IF chars = <<>> THEN acc
    ELSE IF IsAlnum(Head(chars))
         THEN SlugFrom(Tail(chars), sep,
                       acc \o (IF pending THEN sep ELSE <<>>) \o <<Lower(Head(chars))>>,
                       FALSE)
         ELSE SlugFrom(Tail(chars), sep, acc, acc # <<>>)

\* The slug of a title: lower-cased, each run of non-alphanumeric characters
\* replaced by the separator, no separator at the start or at the end.
Slugify(title, sep) == SlugFrom(title, sep, <<>>, FALSE)

RECURSIVE Decimal(_)
\* the decimal digits of a natural number
Decimal(n) ==
    IF n < 10 THEN <<DigitChars[n + 1]>>
    ELSE Decimal(n \div 10) \o <<DigitChars[(n % 10) + 1]>>

RECURSIVE GlobMatch(_, _)
\* A page pattern against a page name: "**" matches any characters, "*" any
\* characters but "/", "?" one character but "/", any other character itself.
GlobMatch(pat, name) ==
    IF pat = <<>> THEN name = <<>>
    ELSE IF Len(pat) >= 2 /\ pat[1] = "*" /\ pat[2] = "*"
    THEN \E k \in 0..Len(name) :
            GlobMatch(SubSeq(pat, 3, Len(pat)), SubSeq(name, k + 1, Len(name)))
    ELSE IF pat[1] = "*"
    THEN \E k \in 0..Len(name) :
            /\ \A i \in 1..k : name[i] # "/"
            /\ GlobMatch(Tail(pat), SubSeq(name, k + 1, Len(name)))
    ELSE IF pat[1] = "?"
    THEN name # <<>> /\ name[1] # "/" /\ GlobMatch(Tail(pat), Tail(name))
    ELSE name # <<>> /\ name[1] = pat[1] /\ GlobMatch(Tail(pat), Tail(name))

\* what a page gets when no pattern of html_sidebars matches it: the
\* renderer's own widgets (one stands for them)
DefaultSidebars ==
    << PyStr(<<"s", "e", "a", "r", "c", "h", "b", "o", "x", ".", "h", "t", "m", "l">>) >>

\* The ordered widgets of a page: those of the first pattern of the
\* html_sidebars mapping that matches the page name.
SidebarsFor(name, sidebars) ==
    LET entries == IF sidebars.t = "dict" THEN sidebars.v ELSE <<>>
        hits == {i \in 1..Len(entries) : GlobMatch(entries[i][1].v, name)}
    IN  IF hits = {} THEN DefaultSidebars
        ELSE entries[CHOOSE i \in hits : \A j \in hits : i <= j][2].v

\* a setting is absent when conf.py did not bind it or bound it to None
Absent(value) == value = Unbound \/ value = PyNone

\* The posts of the site: post i has the title Titles[i], cyclically, and
\* lives under the date of its publication.
Titles ==
    << <<"H", "e", "l", "l", "o", ",", " ", "W", "o", "r", "l", "d", "!">>,
       <<" ", " ", "T", "L", "A", "+", " ", "i", "n", " ", "2", "0", "1", "5", "?">>,
       <<"C", "+", "+", " ", "&", " ", "M", "e">>,
       <<"-", "-", "d", "r", "a", "f", "t", "-", "-">> >>

PostTitle(i) == Titles[((i - 1) % Len(Titles)) + 1]

PostDate == <<"2", "0", "1", "5", "/", "0", "1", "/", "0", "1">>

\* the number of listing pages n posts make at a page size
NumListingPages(n, size) ==
    IF size > 0 THEN (n + size - 1) \div size ELSE 0

\* the number of artifacts of a kind rendered so far
Rendered(kind) == Cardinality({i \in 1..Len(out) : out[i].kind = kind})

----------------------------------------------------------------------------
(* The build that consumes the namespace: its steps, one after the other   *)
(* (section 5: single-threaded; the record is read before any rendering).  *)

PageSize == cfg["posts_per_page"].v

Separator == cfg["slug_word_separator"].v

\* an artifact of the build: a page of the site with its sidebar widgets
Page(kind, name, title, slug, count) ==
    [kind |-> kind, name |-> name, title |-> title, slug |-> slug, count |-> count,
     widgets |-> SidebarsFor(name, cfg["html_sidebars"])]

\* The consumer takes over once conf.py has run to its end.
StartBuild ==
    /\ stage = "load"
    /\ Loaded
    /\ stage' = "init_values"
    /\ UNCHANGED <<tk, nposts>>
    /\ UNCHANGED loadVars
    /\ UNCHANGED buildVars

\* The consumer reads the next recognized key of the namespace into its
\* Config; the namespace is only read.
InitValue ==
    /\ stage = "init_values"
    /\ LET k == KeyOrder[nread + 1] IN
         cfg' = [cfg EXCEPT ![k] = ns[k]]
    /\ nread' = nread + 1
    /\ stage' = IF nread + 1 = Len(KeyOrder) THEN "setup" ELSE "init_values"
    /\ UNCHANGED <<tk, nposts, loadedExts, out, siteRoot, rootTitle, feedLink>>
    /\ UNCHANGED loadVars

\* The consumer sets up the next extension of the extensions list.
SetupExtension ==
    /\ stage = "setup"
    /\ LET exts == IF cfg["extensions"].t = "list" THEN cfg["extensions"].v ELSE <<>>
           next == IF Len(loadedExts) < Len(exts)
                   THEN Append(loadedExts, exts[Len(loadedExts) + 1])
                   ELSE loadedExts
       IN  /\ loadedExts' = next
           /\ stage' = IF Len(next) >= Len(exts) THEN "posts" ELSE "setup"
    /\ UNCHANGED <<tk, nposts, cfg, nread, out, siteRoot, rootTitle, feedLink>>
    /\ UNCHANGED loadVars

\* The next post is rendered: its page name is its date and the slug of its
\* title.
RenderPost ==
    /\ stage = "posts"
    /\ LET i == Rendered("post") + 1
           title == PostTitle(i)
           slug == Slugify(title, Separator)
       IN  IF i <= nposts
           THEN /\ out' = Append(out, Page("post", PostDate \o <<"/">> \o slug, title, slug, 1))
                /\ stage' = IF i = nposts THEN "listing" ELSE "posts"
           ELSE /\ out' = out
                /\ stage' = "listing"
    /\ UNCHANGED <<tk, nposts, cfg, nread, loadedExts, siteRoot, rootTitle, feedLink>>
    /\ UNCHANGED loadVars

\* The next listing page is rendered: posts_per_page posts, the last page
\* the remaining ones.
RenderListing ==
    /\ stage = "listing"
    /\ LET j == Rendered("listing") + 1
           total == NumListingPages(nposts, PageSize)
           count == IF j * PageSize <= nposts THEN PageSize ELSE nposts - (j - 1) * PageSize
       IN  IF j <= total
           THEN /\ out' = Append(out, Page("listing", <<"p", "a", "g", "e">> \o Decimal(j), <<>>, <<>>, count))
                /\ stage' = IF j = total THEN "root" ELSE "listing"
           ELSE /\ out' = out
                /\ stage' = "root"
    /\ UNCHANGED <<tk, nposts, cfg, nread, loadedExts, siteRoot, rootTitle, feedLink>>
    /\ UNCHANGED loadVars

\* The site root: the landing page when landing_page names one, the post
\* listing otherwise; its label is first_page_title, "Home" otherwise.
ResolveRoot ==
    /\ stage = "root"
    /\ siteRoot' = IF Absent(cfg["landing_page"])
                   THEN [kind |-> "post_listing", target |-> <<>>]
                   ELSE [kind |-> "page",
                         target |-> <<"p", "a", "g", "e", "s", "/">> \o cfg["landing_page"].v]
    /\ rootTitle' = IF Absent(cfg["first_page_title"])
                    THEN PyStr(<<"H", "o", "m", "e">>)
                    ELSE cfg["first_page_title"]
    /\ out' = Append(out, Page("root", <<"i", "n", "d", "e", "x">>, <<>>, <<>>, 0))
    /\ stage' = "feed"
    /\ UNCHANGED <<tk, nposts, cfg, nread, loadedExts, feedLink>>
    /\ UNCHANGED loadVars

\* The feed link of the pages: the relay service when rss_service names
\* one, the site's own feed otherwise.
RenderFeed ==
    /\ stage = "feed"
    /\ feedLink' = IF Absent(cfg["rss_service"])
                   THEN [kind |-> "direct",
                         target |-> cfg["website"].v \o <<"r", "s", "s", ".", "h", "t", "m", "l">>]
                   ELSE [kind |-> "relay", target |-> cfg["rss_service"].v]
    /\ stage' = "done"
    /\ UNCHANGED <<tk, nposts, cfg, nread, loadedExts, out, siteRoot, rootTitle>>
    /\ UNCHANGED loadVars

Next ==
    \/ ExecStmt
    \/ StartBuild
    \/ InitValue
    \/ SetupExtension
    \/ RenderPost
    \/ RenderListing
    \/ ResolveRoot
    \/ RenderFeed

Spec == Init /\ [][Next]_vars

----------------------------------------------------------------------------
(* Properties *)

\* the settings the last block of conf.py adds for Tinkerer and Sphinx
RequiredKeys ==
    {"source_suffix", "master_doc", "version", "release", "html_title",
     "html_show_sourcelink", "html_add_permalinks"}

BoundNames == {n \in DOMAIN ns : ns[n] # Unbound}

\* the record of section 4.1 is complete: conf.py is past line 89
RecordBuilt == \A k \in RecognizedKeys : k \in BoundNames

\* C1: once the 22 recognized keys are bound, no later step changes the value
\* of any of them: neither the statements of conf.py that follow line 89, nor
\* any step of the build that runs after the load.
C1_RecordNeverChanges ==
    [][RecordBuilt => \A k \in RecognizedKeys : ns'[k] = ns[k]]_vars

C1_Witness ==
    /\ RecordBuilt
    /\ Loaded
    /\ stage = "done"
    /\ Len(out) > 1
    /\ \A k \in RecognizedKeys : cfg[k] = ns[k]

\* what each setting's right-hand side reads, by the corrected statement of C3
ExpectedDeps(n) ==
    CASE n = "copyright" -> {"author"}
      [] n = "html_title" -> {"project"}
      [] n = "html_static_path" -> {"tinkerer.paths.static"}
      [] n = "html_theme_path" -> {"tinkerer.paths.themes"}
      [] n = "source_suffix" -> {"tinkerer.source_suffix"}
      [] n = "master_doc" -> {"tinkerer.master_doc"}
      [] n = "version" -> {"tinkerer.__version__"}
      [] n = "release" -> {"tinkerer.__version__"}
      [] OTHER -> {}

\* C3, as stated: conf.py binds no setting outside the 22 recognized keys and
\* takes no value from another module.
C3_OnlyRecognizedLiteralKeys ==
    \A n \in BoundNames \ {"tinkerer"} :
        /\ n \in RecognizedKeys
        /\ deps[n] \cap TinkererAttrs = {}

\* C3, amended: conf.py binds the 22 recognized keys, the seven settings
\* source_suffix, master_doc, version, release, html_title,
\* html_show_sourcelink and html_add_permalinks, and the name tinkerer (the
\* imported package).  Every setting is a literal scalar, list or mapping,
\* except copyright and html_title, which copy author and project, the
\* second entries of html_static_path and html_theme_path, which are
\* tinkerer.paths.static and tinkerer.paths.themes, and source_suffix,
\* master_doc, version and release, which are attributes of tinkerer.
C3_KeysAndOrigins ==
    /\ BoundNames \subseteq RecognizedKeys \cup RequiredKeys \cup {"tinkerer"}
    /\ \A n \in BoundNames \ {"tinkerer"} : deps[n] = ExpectedDeps(n)
    /\ "tinkerer" \in BoundNames => ns["tinkerer"].t = "module"
    /\ pc > NumStmts =>
          /\ ~failed
          /\ BoundNames = RecognizedKeys \cup RequiredKeys \cup {"tinkerer"}
          /\ ns["html_static_path"].v[2] = tk["tinkerer.paths.static"]
          /\ ns["html_theme_path"].v[2] = tk["tinkerer.paths.themes"]
          /\ ns["source_suffix"] = tk["tinkerer.source_suffix"]
          /\ ns["master_doc"] = tk["tinkerer.master_doc"]
          /\ ns["version"] = tk["tinkerer.__version__"]

C3_Witness ==
    /\ Loaded
    /\ "html_add_permalinks" \in BoundNames
    /\ deps["html_static_path"] = {"tinkerer.paths.static"}

\* C4: a read of a recognized key returns the value conf.py bound it to; every
\* recognized key is bound, and the three that hold None get the default:
\* with rss_service = None the feed is linked directly, with landing_page =
\* None the post listing is the site root, with first_page_title = None the
\* first page is labelled "Home".
C4_ReadsAndDefaults ==
    /\ \A i \in 1..nread :
          /\ cfg[KeyOrder[i]] # Unbound
          /\ cfg[KeyOrder[i]] = ns[KeyOrder[i]]
    /\ nread = Len(KeyOrder) =>
          {k \in RecognizedKeys : cfg[k] = PyNone}
              = {"rss_service", "landing_page", "first_page_title"}
    /\ feedLink # Unresolved =>
          /\ ns["rss_service"] = PyNone
          /\ feedLink.kind = "direct"
          /\ feedLink.target = ns["website"].v \o <<"r", "s", "s", ".", "h", "t", "m", "l">>
    /\ siteRoot # Unresolved =>
          /\ ns["landing_page"] = PyNone
          /\ siteRoot.kind = "post_listing"
    /\ rootTitle # Unbound => rootTitle = PyStr(<<"H", "o", "m", "e">>)

C4_Witness ==
    /\ stage = "done"
    /\ nread = Len(KeyOrder)
    /\ feedLink.kind = "direct"
    /\ siteRoot.kind = "post_listing"

\* C5: posts_per_page, once bound, is an integer greater than 0; the page
\* size of the listing views is that value, 10; no listing page holds more
\* than 10 posts (and none is empty).
C5_PageSize ==
    /\ "posts_per_page" \in BoundNames =>
          /\ ns["posts_per_page"].t = "int"
          /\ ns["posts_per_page"].v > 0
    /\ cfg["posts_per_page"] # Unbound =>
          /\ PageSize = ns["posts_per_page"].v
          /\ PageSize = 10
    /\ \A i \in 1..Len(out) :
          out[i].kind = "listing" => out[i].count >= 1 /\ out[i].count <= 10
    /\ stage \in {"root", "feed", "done"} =>
          Rendered("listing") = (nposts + 9) \div 10

C5_Witness ==
    /\ nposts > 10
    /\ \E i \in 1..Len(out) : out[i].kind = "listing" /\ out[i].count = 10
    /\ \E i \in 1..Len(out) : out[i].kind = "listing" /\ out[i].count = nposts - 10

DeclaredExtensions ==
    << PyStr(<<"t", "i", "n", "k", "e", "r", "e", "r", ".", "e", "x", "t", ".", "b", "l", "o", "g">>),
       PyStr(<<"s", "p", "h", "i", "n", "x", ".", "e", "x", "t", ".", "m", "a", "t", "h", "j", "a", "x">>) >>

\* C6: the extensions are set up in their declared order: tinkerer.ext.blog
\* first, sphinx.ext.mathjax second; what has been set up is always the
\* beginning of the declared list, and once the setup is over it is the
\* whole list: nothing dropped, repeated or reordered.
C6_ExtensionsInOrder ==
    /\ Len(loadedExts) <= Len(DeclaredExtensions)
    /\ \A i \in 1..Len(loadedExts) : loadedExts[i] = DeclaredExtensions[i]
    /\ "extensions" \in BoundNames => ns["extensions"] = PyList(DeclaredExtensions)
    /\ stage \in {"posts", "listing", "root", "feed", "done"} =>
          loadedExts = ns["extensions"].v

C6_Witness ==
    /\ stage = "posts"
    /\ Len(loadedExts) = 2
    /\ loadedExts[1] # loadedExts[2]

HelloWorld == <<"H", "e", "l", "l", "o", ",", " ", "W", "o", "r", "l", "d", "!">>

\* C8: slug_word_separator is a string of exactly one printable character;
\* with it the title "Hello, World!" gets the slug "hello-world", and no slug
\* starts or ends with the separator.
C8_Separator ==
    /\ "slug_word_separator" \in BoundNames =>
          /\ ns["slug_word_separator"].t = "str"
          /\ Len(ns["slug_word_separator"].v) = 1
          /\ ns["slug_word_separator"].v[1] \in Printable
          /\ Slugify(HelloWorld, ns["slug_word_separator"].v)
                = <<"h", "e", "l", "l", "o", "-", "w", "o", "r", "l", "d">>
    /\ \A i \in 1..Len(out) :
          out[i].kind = "post" =>
             /\ out[i].slug = Slugify(out[i].title, ns["slug_word_separator"].v)
             /\ out[i].title = HelloWorld =>
                   out[i].slug = <<"h", "e", "l", "l", "o", "-", "w", "o", "r", "l", "d">>
             /\ out[i].slug # <<>>
             /\ out[i].slug[1] # "-"
             /\ out[i].slug[Len(out[i].slug)] # "-"
             /\ \A j \in 1..Len(out[i].slug) :
                   IsAlnum(out[i].slug[j]) \/ out[i].slug[j] = "-"

C8_Witness ==
    \E i \in 1..Len(out) :
        /\ out[i].kind = "post"
        /\ out[i].title = HelloWorld
        /\ out[i].slug = <<"h", "e", "l", "l", "o", "-", "w", "o", "r", "l", "d">>

\* page names of every shape: empty, plain, and under one or more directories
SamplePageNames ==
    { <<>>,
      <<"i", "n", "d", "e", "x">>,
      <<"p", "a", "g", "e", "s", "/", "a", "b", "o", "u", "t">>,
      <<"2", "0", "1", "5", "/", "0", "1", "/", "0", "1", "/", "x">>,
      <<"/">>, <<"*">> }

\* C9: html_sidebars maps the single pattern '**' to the empty list, the
\* pattern matches every page name, and every page gets no sidebar widget.
C9_NoSidebars ==
    /\ "html_sidebars" \in BoundNames =>
          /\ ns["html_sidebars"] = PyDict(<< <<PyStr(<<"*", "*">>), PyList(<<>>)>> >>)
          /\ \A name \in SamplePageNames :
                /\ GlobMatch(ns["html_sidebars"].v[1][1].v, name)
                /\ SidebarsFor(name, ns["html_sidebars"]) = <<>>
    /\ \A i \in 1..Len(out) :
          /\ GlobMatch(<<"*", "*">>, out[i].name)
          /\ out[i].widgets = <<>>

C9_Witness ==
    /\ \E i \in 1..Len(out) :
          /\ out[i].kind = "post"
          /\ \E j \in 1..Len(out[i].name) : out[i].name[j] = "/"
          /\ out[i].widgets = <<>>
    /\ \E i \in 1..Len(out) : out[i].kind = "listing" /\ out[i].widgets = <<>>
    /\ \E i \in 1..Len(out) : out[i].kind = "root" /\ out[i].widgets = <<>>

\* C10: each setting conf.py derives from another equals its source from its
\* binding on, through the load and the build: copyright = author,
\* html_title = project, release = version; after the load all are bound.
C10_DerivedSettings ==
    /\ "copyright" \in BoundNames => ns["copyright"] = ns["author"]
    /\ "html_title" \in BoundNames => ns["html_title"] = ns["project"]
    /\ "release" \in BoundNames => ns["release"] = ns["version"]
    /\ pc > NumStmts =>
          {"author", "copyright", "project", "html_title", "version", "release"}
              \subseteq BoundNames

C10_Witness ==
    /\ stage = "done"
    /\ ns["copyright"] = ns["author"]
    /\ ns["author"] # Unbound
    /\ ns["release"] = tk["tinkerer.__version__"]
    /\ ns["html_title"] = PyStr(<<"B", "l", "o", "g">>)

====
